---------------------------- MODULE Spec2Model ----------------------------
(***************************************************************************)
(* Model of the LinkedIn enrichment job (DevScanAI/linkedin-enricher):     *)
(*   src/src/lib/utils/linkedin_profile_utils.py  handle normaliser,       *)
(*       matcher and record builders                                       *)
(*   src/src/enrich_linkedin_profiles.py          selection query, upsert  *)
(*       and the run orchestrator                                          *)
(*                                                                         *)
(* Representation.  A Python or SQL value that may be None / NULL is a     *)
(* sequence of length at most one: None is << >>, the value v is << v >>.  *)
(* Python strings are TLA+ strings.  Times are epoch milliseconds.         *)
(***************************************************************************)
EXTENDS Integers, Sequences, FiniteSets, TLC

VARIABLES
    store,              \* the rows of linkedin.user_details
    now,                \* the clock, epoch milliseconds
    pc,                 \* position of the run: "idle", "selected", "fetched"
    batch_size,         \* the run's argument
    query_timestamp,  \* the time Step 1 read for its query, None between runs
    pending_records,    \* the run's selection (Step 1)
    linkedin_urls,      \* the URLs handed to the fetch collaborator (Step 2)
    profile_lookup,     \* the lookup built from the fetched profiles (Step 3)
    records_without_profiles, \* the missed records of the partition (Step 3)
    enriched_records,   \* outcome tuples of the matched records (Step 4)
    missing_records,    \* outcome tuples of the missed records (Step 4)
    clock_reads,        \* what time.time() returned to each call of Step 4 that built a missed record
    report,             \* how the last run ended
    miss_streak,        \* history: persisted misses in a row, per github_user_id
    calls,              \* history: the external calls of the run, in order
    faults,             \* history: the collaborators that failed in the run
    store_before,       \* history: the table when the run started
    other_pc,           \* a second run on the same table: its position
    other_timestamp,    \* the time the second run read for its query
    other_pending,      \* the second run's selection
    other_without_profiles, \* the second run's missed records
    other_records,      \* the second run's outcome tuples, enriched then missing
    reference,      \* normaliser harness: the input x
    variant,        \* normaliser harness: an input y that differs from x in case only
    norm_once,      \* normalize(x), None before the call
    norm_twice,     \* normalize(normalize(x)), None before the call
    norm_variant,   \* normalize(y), None before the call
    match_input,    \* matcher harness: <<pending records, fetched profiles>>
    match_output,   \* <<with_profiles, without_profiles>>, None before the call
    reorder_input,  \* matcher harness: the fetched profiles in another order
    reorder_output  \* the partition for the reordered list, None before the call

normVars == <<reference, variant, norm_once, norm_twice, norm_variant>>
matchVars == <<match_input, match_output, reorder_input, reorder_output>>
runVars == <<store, now, pc, batch_size, query_timestamp, pending_records,
             linkedin_urls, profile_lookup, records_without_profiles,
             enriched_records, missing_records, clock_reads, report, miss_streak,
             calls, faults, store_before>>
otherVars == <<other_pc, other_timestamp, other_pending, other_without_profiles,
               other_records>>
vars == <<runVars, normVars, matchVars, otherVars>>

None == << >>
Some(v) == << v >>

-----------------------------------------------------------------------------
(* Python string primitives used by normalize_linkedin_handle.             *)

UpperLetters == "ABCDEFGHIJKLMNOPQRSTUVWXYZ"
LowerLetters == "abcdefghijklmnopqrstuvwxyz"

\* the character at position i of s, as a one-character string
CharAt(s, i) == SubSeq(s, i, i)

\* the lower-case letter of every upper-case ASCII letter
LowerOf ==
    [ c \in { CharAt(UpperLetters, i) : i \in 1..Len(UpperLetters) } |->
        LET i == CHOOSE j \in 1..Len(UpperLetters) : CharAt(UpperLetters, j) = c
        IN  CharAt(LowerLetters, i) ]

\* str.lower() on one ASCII character
LowerChar(c) == IF c \in DOMAIN LowerOf THEN LowerOf[c] ELSE c

\* str.lower()
RECURSIVE lower(_)
lower(s) ==
    IF Len(s) = 0 THEN ""
    ELSE LowerChar(CharAt(s, 1)) \o lower(SubSeq(s, 2, Len(s)))

\* str.startswith(prefix)
startswith(s, prefix) ==
    /\ Len(s) >= Len(prefix)
    /\ SubSeq(s, 1, Len(prefix)) = prefix

\* str.replace(old, ''): every non-overlapping occurrence of old, scanning
\* from the left, is removed (old is non-empty)
RECURSIVE replace(_, _)
replace(s, old) ==
    IF Len(s) < Len(old) THEN s
    ELSE IF startswith(s, old)
         THEN replace(SubSeq(s, Len(old) + 1, Len(s)), old)
         ELSE CharAt(s, 1) \o replace(SubSeq(s, 2, Len(s)), old)

\* str.lstrip('/') and str.rstrip('/')
RECURSIVE lstrip(_)
lstrip(s) ==
    IF Len(s) > 0 /\ CharAt(s, 1) = "/" THEN lstrip(SubSeq(s, 2, Len(s))) ELSE s

RECURSIVE rstrip(_)
rstrip(s) ==
    IF Len(s) > 0 /\ CharAt(s, Len(s)) = "/" THEN rstrip(SubSeq(s, 1, Len(s) - 1)) ELSE s

\* str.strip('/')
strip(s) == rstrip(lstrip(s))

-----------------------------------------------------------------------------
(* Handle Normalizer                                                       *)

normalize_linkedin_handle(linkedin_url_or_handle) ==
    LET h1 == replace(linkedin_url_or_handle, "https://www.linkedin.com")
        h2 == replace(h1, "https://linkedin.com")
        h3 == replace(h2, "http://www.linkedin.com")
        h4 == strip(h3)
        handle == IF ~startswith(h4, "in/") THEN "in/" \o h4 ELSE h4
    IN  lower("/" \o handle)

-----------------------------------------------------------------------------
(* Fetched profiles.  An Apify profile is a dict: a function from some of  *)
(* the field names to values; a value may be None (JSON null).             *)

\* the keys build_enriched_profile_record reads, in tuple order
ApifyFields ==
    << "fullName", "firstName", "lastName", "headline", "about",
       "publicIdentifier", "linkedinUrl", "connections", "followers",
       "jobTitle", "companyName", "companyIndustry", "companyWebsite",
       "companyLinkedin", "companyFoundedIn", "companySize",
       "currentJobDurationInYrs", "addressWithCountry", "addressCountryOnly",
       "addressWithoutCountry", "profilePic", "profilePicHighQuality",
       "topSkillsByEndorsements" >>

\* dict.get(key, default)
get(d, key, default) == IF key \in DOMAIN d THEN d[key] ELSE default

\* Python truthiness of an optional string: None and '' are falsy
TruthyStr(v) == v # None /\ v[1] # ""

\* Python truthiness of an optional dict: None and {} are falsy
TruthyDict(v) == v # None /\ DOMAIN v[1] # {}

\* json.dumps(apify_profile): the serialised blob, not the dict itself
json_dumps(d) == [json |-> d]

Last(seq) == seq[Len(seq)]
Front(seq) == SubSeq(seq, 1, Len(seq) - 1)

\* variant: an earlier profile is kept when a later one has the same key
RECURSIVE create_lookup_keeping_first(_)
create_lookup_keeping_first(profiles) ==
    IF Len(profiles) = 0 THEN << >>
    ELSE LET handle_to_profile == create_lookup_keeping_first(Front(profiles))
             profile == Last(profiles)
             public_id == get(profile, "publicIdentifier", Some(""))
         IN  IF TruthyStr(public_id)
             THEN handle_to_profile @@ (normalize_linkedin_handle(public_id[1]) :> profile)
             ELSE handle_to_profile

\* The dict built by the loop: a later profile overwrites an earlier one
\* under the same normalised handle; falsy identifiers are skipped.
RECURSIVE create_lookup_from_apify_profiles(_)
create_lookup_from_apify_profiles(profiles) ==
    IF Len(profiles) = 0 THEN << >>
    ELSE LET handle_to_profile == create_lookup_from_apify_profiles(Front(profiles))
             profile == Last(profiles)
             public_id == get(profile, "publicIdentifier", Some(""))
         IN  IF TruthyStr(public_id)
             THEN (normalize_linkedin_handle(public_id[1]) :> profile) @@ handle_to_profile
             ELSE handle_to_profile

\* variant: the lookup is made with the stored handle as it is
match_record_by_raw_handle(record, apify_profile_lookup) ==
    LET linkedin_handle == record[4]
    IN  IF linkedin_handle[1] \in DOMAIN apify_profile_lookup
        THEN Some(apify_profile_lookup[linkedin_handle[1]])
        ELSE None

\* apify_profile_lookup.get(normalized_handle): the profile, or None
match_record_to_apify_profile(record, apify_profile_lookup) ==
    LET linkedin_handle == record[4]
        normalized_handle == normalize_linkedin_handle(linkedin_handle[1])
    IN  IF normalized_handle \in DOMAIN apify_profile_lookup
        THEN Some(apify_profile_lookup[normalized_handle])
        ELSE None

\* variant: the append to without_profiles is not under the else
RECURSIVE partition_records_without_else(_, _)
partition_records_without_else(records, apify_profile_lookup) ==
    IF Len(records) = 0 THEN << << >>, << >> >>
    ELSE LET done == partition_records_without_else(Front(records), apify_profile_lookup)
             record == Last(records)
             apify_profile == match_record_to_apify_profile(record, apify_profile_lookup)
         IN  IF TruthyDict(apify_profile)
             THEN << Append(done[1], << apify_profile[1], record >>), Append(done[2], record) >>
             ELSE << done[1], Append(done[2], record) >>

\* <<with_profiles, without_profiles>>; with_profiles holds <<profile, record>>
RECURSIVE partition_records_by_profile_availability(_, _)
partition_records_by_profile_availability(records, apify_profile_lookup) ==
    IF Len(records) = 0 THEN << << >>, << >> >>
    ELSE LET done == partition_records_by_profile_availability(Front(records), apify_profile_lookup)
             record == Last(records)
             apify_profile == match_record_to_apify_profile(record, apify_profile_lookup)
         IN  IF TruthyDict(apify_profile)
             THEN << Append(done[1], << apify_profile[1], record >>), done[2] >>
             ELSE << done[1], Append(done[2], record) >>

-----------------------------------------------------------------------------
(* Record Builder.  A pending record is the 5-tuple of the selection       *)
(* query; an outcome record is the 34-tuple in the column order of         *)
(* upsert_linkedin_profiles.                                               *)

MissingMessage == "Profile not returned by Apify API"

\* variant: retry_count is left unset on success
build_enriched_profile_record_without_count(apify_profile, record) ==
    << record[1], record[2], record[3], record[4],
       Some("apify"), Some(TRUE), None >>
    \o [ i \in 1..Len(ApifyFields) |-> get(apify_profile, ApifyFields[i], None) ]
    \o << Some(json_dumps(apify_profile)), None, None, None >>

\* variant: the retry_count of the record is kept on success
build_enriched_profile_record_keeping_count(apify_profile, record) ==
    << record[1], record[2], record[3], record[4],
       Some("apify"), Some(TRUE), None >>
    \o [ i \in 1..Len(ApifyFields) |-> get(apify_profile, ApifyFields[i], None) ]
    \o << Some(json_dumps(apify_profile)), record[5], None, None >>

build_enriched_profile_record(apify_profile, record) ==
    << record[1], record[2], record[3], record[4],
       Some("apify"), Some(TRUE), None >>
    \o [ i \in 1..Len(ApifyFields) |-> get(apify_profile, ApifyFields[i], None) ]
    \o << Some(json_dumps(apify_profile)), Some(0), None, None >>

\* (retry_count ** 2) * 5 minutes, in milliseconds
BackoffMs(new_retry_count) == ((new_retry_count * new_retry_count) * 5) * 60 * 1000

\* variant: last_retry_at and next_retry_after change places
build_missing_profile_record_swapped(record, current_retry_count, current_timestamp) ==
    LET new_retry_count == current_retry_count + 1
        next_retry_timestamp == current_timestamp + BackoffMs(new_retry_count)
    IN  << record[1], record[2], record[3], record[4],
           Some("apify"), Some(FALSE), Some(MissingMessage) >>
        \o [ i \in 1..23 |-> None ]
        \o << None, Some(new_retry_count), Some(next_retry_timestamp),
              Some(current_timestamp) >>

\* current_timestamp is int(time.time() * 1000) at the call
build_missing_profile_record(record, current_retry_count, current_timestamp) ==
    LET new_retry_count == current_retry_count + 1
        next_retry_timestamp == current_timestamp + BackoffMs(new_retry_count)
    IN  << record[1], record[2], record[3], record[4],
           Some("apify"), Some(FALSE), Some(MissingMessage) >>
        \o [ i \in 1..23 |-> None ]
        \o << None, Some(new_retry_count), Some(current_timestamp),
              Some(next_retry_timestamp) >>

-----------------------------------------------------------------------------
(* The table linkedin.user_details.  A row is a function from the column   *)
(* names to optional values.                                               *)

columns ==
    << "github_user_id", "social_link_url", "link_provider", "linkedin_handle",
       "record_source", "profile_found", "profile_fetch_message",
       "full_name", "first_name", "last_name", "headline", "about",
       "public_identifier", "linkedin_url", "connections", "followers",
       "job_title", "company_name", "company_industry", "company_website",
       "company_linkedin", "company_founded_in", "company_size",
       "current_job_duration_yrs", "address_with_country",
       "address_country_only", "address_without_country", "profile_pic_url",
       "profile_pic_high_quality_url", "top_skills_by_endorsements",
       "profile_data", "retry_count", "last_retry_at", "next_retry_after" >>

conflict_columns == << "github_user_id", "linkedin_handle" >>

Range(seq) == { seq[i] : i \in 1..Len(seq) }

update_columns == { c \in Range(columns) : c \notin Range(conflict_columns) }

ColumnIndex(c) == CHOOSE i \in 1..Len(columns) : columns[i] = c

\* the row whose columns hold the values of an outcome tuple, by position
RowOf(profile_record) ==
    [ c \in Range(columns) |-> profile_record[ColumnIndex(c)] ]

SameKey(row, other) == \A c \in Range(conflict_columns) : row[c] = other[c]

\* variant: INSERT without the conflict clause, the old row of a key stays
insert_multiple_records(profile_records, table) ==
    table \cup { RowOf(profile_records[i]) : i \in 1..Len(profile_records) }

\* INSERT ... ON CONFLICT (github_user_id, linkedin_handle) DO UPDATE SET
\* every other column, one outcome tuple after the other
RECURSIVE upsert_multiple_records(_, _)
upsert_multiple_records(profile_records, table) ==
    IF Len(profile_records) = 0 THEN table
    ELSE LET before == upsert_multiple_records(Front(profile_records), table)
             new == RowOf(Last(profile_records))
             old == { row \in before : SameKey(row, new) }
         IN  (before \ old) \cup
             { [ c \in Range(columns) |->
                   IF c \in update_columns THEN new[c]
                   ELSE IF old = {} THEN new[c] ELSE (CHOOSE row \in old : TRUE)[c] ] }

-----------------------------------------------------------------------------
(* Selection: the query of fetch_records_pending_for_enrichment.           *)

COALESCE(v, default) == IF v = None THEN default ELSE v[1]

\* variant: the WHERE clause without the retry_count < 3 condition
EligibleWithoutRetryCap(row, current_timestamp) ==
    /\ row.linkedin_handle # None
    /\ \/ row.retry_count = None
       \/ /\ row.profile_found = Some(FALSE)
          /\ \/ row.next_retry_after = None
             \/ row.next_retry_after[1] < current_timestamp

\* the WHERE clause, for the bound parameter current_timestamp
Eligible(row, current_timestamp) ==
    /\ row.linkedin_handle # None
    /\ \/ row.retry_count = None
       \/ /\ row.profile_found = Some(FALSE)
          /\ row.retry_count[1] < 3
          /\ \/ row.next_retry_after = None
             \/ row.next_retry_after[1] < current_timestamp

\* variant: ORDER BY last_retry_at ASC NULLS FIRST alone
OrderedBeforeByTimeOnly(a, b) ==
    \/ a.last_retry_at = None
    \/ /\ b.last_retry_at # None
       /\ a.last_retry_at[1] <= b.last_retry_at[1]

\* variant: ORDER BY COALESCE(retry_count, 0) ASC, last_retry_at DESC
OrderedBeforeNewestFirst(a, b) ==
    \/ COALESCE(a.retry_count, 0) < COALESCE(b.retry_count, 0)
    \/ /\ COALESCE(a.retry_count, 0) = COALESCE(b.retry_count, 0)
       /\ \/ a.last_retry_at = None
          \/ /\ b.last_retry_at # None
             /\ a.last_retry_at[1] >= b.last_retry_at[1]

\* the ORDER BY clause: a may come before b
OrderedBefore(a, b) ==
    \/ COALESCE(a.retry_count, 0) < COALESCE(b.retry_count, 0)
    \/ /\ COALESCE(a.retry_count, 0) = COALESCE(b.retry_count, 0)
       /\ \/ a.last_retry_at = None
          \/ /\ b.last_retry_at # None
             /\ a.last_retry_at[1] <= b.last_retry_at[1]

Min(a, b) == IF a < b THEN a ELSE b

\* the SELECT list
PendingOf(row) ==
    << row.github_user_id, row.social_link_url, row.link_provider,
       row.linkedin_handle, Some(COALESCE(row.retry_count, 0)) >>

\* every result the query can return: the first `limit` eligible rows in
\* ORDER BY order, rows that tie in the order in any order
QueryResults(table, current_timestamp, limit) ==
    LET eligible == { row \in table : Eligible(row, current_timestamp) }
        n == Min(limit, Cardinality(eligible))
    IN  { [ i \in 1..n |-> PendingOf(rows[i]) ] :
            rows \in { q \in [1..n -> eligible] :
                /\ \A i, j \in 1..n : i < j => q[i] # q[j] /\ OrderedBefore(q[i], q[j])
                /\ \A row \in eligible \ Range(q) :
                      \A i \in 1..n : OrderedBefore(q[i], row) } }

-----------------------------------------------------------------------------
(* The harnesses are at rest while the runs are explored, and the runs     *)
(* while a harness is.                                                     *)

NormalizeQuiescent ==
    /\ reference = ""
    /\ variant = None
    /\ norm_once = None
    /\ norm_twice = None
    /\ norm_variant = None

MatchQuiescent ==
    /\ match_input = << >>
    /\ match_output = None
    /\ reorder_input = None
    /\ reorder_output = None

\* no second run
OtherQuiescent ==
    /\ other_pc = "idle"
    /\ other_timestamp = None
    /\ other_pending = << >>
    /\ other_without_profiles = << >>
    /\ other_records = << >>

-----------------------------------------------------------------------------
(* The environment of the runs: the identities in the table, the profiles  *)
(* the provider can return, the clock.                                     *)

MaxLimit == 2       \* largest batch size given to a run
MaxProfiles == 2    \* longest list the fetch collaborator returns
MaxTicks == 4       \* the clock stops after this many ticks
MaxStreak == 4      \* longest run of persisted misses the history counts
MaxOverlapTicks == 1 \* ticks of the clock while two runs overlap
MaxFairTicks == 2   \* ticks of the clock before the stored times move instead

\* one tick of the clock: fifteen minutes, so that the clock passes the
\* 5, 20 and 45 minute cooldowns and stands exactly on the 45 minute one
TickMs == 15 * 60 * 1000

\* <<github_user_id, social_link_url, link_provider, linkedin_handle>>
Identities ==
    { << Some(1), Some("https://www.linkedin.com/in/jdoe"), Some("linkedin"), Some("in/jdoe") >>,
      << Some(2), Some("https://linkedin.com/in/ASmith/"), Some("linkedin"), Some("in/ASmith") >>,
      << Some(3), Some("https://example.org/u/3"), Some("website"), None >> }

UserIds == { identity[1][1] : identity \in Identities }

ProfileJDoe ==
    [ publicIdentifier |-> Some("jdoe"), fullName |-> Some("John Doe"),
      headline |-> Some("Engineer") ]
ProfileJDoeUpper ==
    [ publicIdentifier |-> Some("JDoe"), fullName |-> Some("J. Doe"),
      linkedinUrl |-> Some("https://www.linkedin.com/in/JDoe") ]
ProfileASmith ==
    [ publicIdentifier |-> Some("asmith"), fullName |-> Some("A. Smith"),
      headline |-> None ]
ProfileEmptyId ==
    [ publicIdentifier |-> Some(""), fullName |-> Some("Nobody") ]
ProfileNoId ==
    [ fullName |-> Some("Anonymous") ]

Profiles == { ProfileJDoe, ProfileJDoeUpper, ProfileASmith, ProfileEmptyId, ProfileNoId }

\* the lists the fetch collaborator can return: any profiles in any order,
\* fewer or more than requested, repeated or without identifier
FetchResults == UNION { [1..n -> Profiles] : n \in 0..MaxProfiles }

\* a row inserted by the ingest of social links: identity columns only
NeverAttemptedRow(identity) ==
    [ c \in Range(columns) |->
        IF ColumnIndex(c) <= Len(identity) THEN identity[ColumnIndex(c)] ELSE None ]

\* the rows an identity can have when the first run starts: never attempted,
\* or what a builder produced for it at time 0
InitialRows(identity) ==
    LET record == identity \o << Some(0) >>
    IN  IF identity[4] = None THEN { NeverAttemptedRow(identity) }
        ELSE { NeverAttemptedRow(identity) }
             \cup { RowOf(build_missing_profile_record(record, n, 0)) : n \in 0..2 }
             \cup { RowOf(build_enriched_profile_record(ProfileNoId, record)) }

RowOfUser(table, id) == CHOOSE row \in table : row.github_user_id = Some(id)

\* one row per identity
InitialStores ==
    LET choices == { choice \in [ Identities -> UNION { InitialRows(identity) : identity \in Identities } ] :
                       \A identity \in Identities : choice[identity] \in InitialRows(identity) }
    IN  { { choice[identity] : identity \in Identities } : choice \in choices }

Init ==
    /\ store \in InitialStores
    /\ now = 0
    /\ pc = "idle"
    /\ batch_size = 0
    /\ query_timestamp = None
    /\ pending_records = << >>
    /\ linkedin_urls = << >>
    /\ profile_lookup = << >>
    /\ records_without_profiles = << >>
    /\ enriched_records = << >>
    /\ missing_records = << >>
    /\ clock_reads = << >>
    /\ report = "none"
    /\ miss_streak = [ id \in UserIds |-> COALESCE(RowOfUser(store, id).retry_count, 0) ]
    /\ calls = << >>
    /\ faults = {}
    /\ store_before = store
    /\ NormalizeQuiescent
    /\ MatchQuiescent
    /\ OtherQuiescent

\* time passes, between runs and while a run is under way
Tick ==
    /\ now + TickMs <= MaxTicks * TickMs
    /\ now' = now + TickMs
    /\ UNCHANGED <<store, pc, batch_size, query_timestamp, pending_records,
                   linkedin_urls, profile_lookup, records_without_profiles,
                   enriched_records, missing_records, clock_reads, report,
                   miss_streak, calls, faults, store_before>>
    /\ UNCHANGED <<normVars, matchVars, otherVars>>

-----------------------------------------------------------------------------
(* Enrichment Orchestrator: enrich_linkedin_profiles(batch_size), one      *)
(* action per reading of the clock and per external call, each with the    *)
(* computation that follows it.  The clock ticks at any time.  pc = "done" *)
(* is the end of the function, its locals still in place; Return drops     *)
(* them.                                                                   *)

\* the run is started with its batch size; Step 1 reads the clock for the
\* query parameter before it opens the connection
Start ==
    /\ pc = "idle"
    /\ batch_size' \in 1..MaxLimit
    /\ query_timestamp' = Some(now)
    /\ pc' = "started"
    /\ report' = "running"
    /\ store_before' = store
    /\ UNCHANGED <<store, now, pending_records, linkedin_urls, profile_lookup,
                   records_without_profiles, enriched_records, missing_records,
                   clock_reads, miss_streak, calls, faults>>
    /\ UNCHANGED <<normVars, matchVars, otherVars>>

\* Step 1, the query runs on the table as it is now, with the time read at
\* the start, and returns a non-empty selection
Select ==
    /\ pc = "started"
    /\ \E results \in QueryResults(store, query_timestamp[1], batch_size) :
         /\ Len(results) > 0
         /\ pending_records' = results
    /\ pc' = "selected"
    /\ calls' = << "read" >>
    /\ UNCHANGED <<store, now, batch_size, query_timestamp, linkedin_urls,
                   profile_lookup, records_without_profiles, enriched_records,
                   missing_records, clock_reads, report, miss_streak, faults,
                   store_before>>
    /\ UNCHANGED <<normVars, matchVars, otherVars>>

\* variant: the run does not return on an empty selection
SelectNothingWithoutReturn ==
    /\ pc = "started"
    /\ << >> \in QueryResults(store, query_timestamp[1], batch_size)
    /\ pending_records' = << >>
    /\ pc' = "selected"
    /\ calls' = << "read" >>
    /\ UNCHANGED <<store, now, batch_size, query_timestamp, linkedin_urls,
                   profile_lookup, records_without_profiles, enriched_records,
                   missing_records, clock_reads, report, miss_streak, faults,
                   store_before>>
    /\ UNCHANGED <<normVars, matchVars, otherVars>>

\* Step 1, the query returns an empty selection: "No records need LinkedIn
\* enrichment"
SelectNothing ==
    /\ pc = "started"
    /\ << >> \in QueryResults(store, query_timestamp[1], batch_size)
    /\ pc' = "done"
    /\ report' = "nothing"
    /\ calls' = << "read" >>
    /\ UNCHANGED <<store, now, batch_size, query_timestamp, pending_records,
                   linkedin_urls, profile_lookup, records_without_profiles,
                   enriched_records, missing_records, clock_reads, miss_streak,
                   faults, store_before>>
    /\ UNCHANGED <<normVars, matchVars, otherVars>>

\* Step 1 when open_connection() is falsy and execute_query is not called,
\* or when execute_query fails and returns None: the selection is None and
\* the run returns as for an empty selection
SelectFails ==
    /\ pc = "started"
    /\ pc' = "done"
    /\ report' = "nothing"
    /\ \E connected \in BOOLEAN :
         /\ calls' = IF connected THEN << "read" >> ELSE << >>
         /\ faults' = IF connected THEN { "read" } ELSE { "read", "connect" }
    /\ UNCHANGED <<store, now, batch_size, query_timestamp, pending_records,
                   linkedin_urls, profile_lookup, records_without_profiles,
                   enriched_records, missing_records, clock_reads, miss_streak,
                   store_before>>
    /\ UNCHANGED <<normVars, matchVars, otherVars>>

\* Step 1 when open_connection() raises, before execute_query is called,
\* or when execute_query, or close_connection() after it, raises: nothing
\* catches the exception and it ends the run
SelectRaises ==
    /\ pc = "started"
    /\ pc' = "done"
    /\ report' = "raised"
    /\ \E connected \in BOOLEAN :
         /\ calls' = IF connected THEN << "read" >> ELSE << >>
         /\ faults' = IF connected THEN { "read" } ELSE { "read", "connect" }
    /\ UNCHANGED <<store, now, batch_size, query_timestamp, pending_records,
                   linkedin_urls, profile_lookup, records_without_profiles,
                   enriched_records, missing_records, clock_reads, miss_streak,
                   store_before>>
    /\ UNCHANGED <<normVars, matchVars, otherVars>>

\* the URL list of Step 2
LinkedinUrls(records) ==
    [ i \in 1..Len(records) |-> "https://www.linkedin.com/" \o records[i][4][1] ]

\* Step 4, the matched records
EnrichedRecords(records, lookup) ==
    LET records_with_profiles ==
            partition_records_by_profile_availability(records, lookup)[1]
    IN  [ i \in 1..Len(records_with_profiles) |->
            build_enriched_profile_record(records_with_profiles[i][1],
                                          records_with_profiles[i][2]) ]

\* the lookups Step 3 can build from what the fetch collaborator returns
FetchedLookups == { create_lookup_from_apify_profiles(profiles) : profiles \in FetchResults }

\* where the run stands once the matched records are built: in the
\* comprehension over the missed records, or past it when there are none
AfterMatching(without_profiles) ==
    IF without_profiles = << >> THEN "fetched" ELSE "building"

\* Steps 2 to 4 up to the matched records: the URLs are built, the fetch
\* collaborator returns a list, the lookup, the partition and the outcome
\* tuples of the matched records are computed
Fetch ==
    /\ pc = "selected"
    /\ linkedin_urls' = LinkedinUrls(pending_records)
    /\ \E lookup \in FetchedLookups :
         LET partition == partition_records_by_profile_availability(pending_records, lookup)
         IN  /\ profile_lookup' = lookup
             /\ records_without_profiles' = partition[2]
             /\ enriched_records' = EnrichedRecords(pending_records, lookup)
             /\ pc' = AfterMatching(partition[2])
    /\ calls' = Append(calls, "fetch")
    /\ UNCHANGED <<store, now, batch_size, query_timestamp, pending_records,
                   missing_records, clock_reads, report, miss_streak, faults,
                   store_before>>
    /\ UNCHANGED <<normVars, matchVars, otherVars>>

\* Step 2 when the fetch collaborator raises, or returns None and the loop
\* of create_lookup_from_apify_profiles raises on it: the exception ends
\* the run
FetchRaises ==
    /\ pc = "selected"
    /\ linkedin_urls' = LinkedinUrls(pending_records)
    /\ pc' = "done"
    /\ report' = "raised"
    /\ calls' = Append(calls, "fetch")
    /\ faults' = { "fetch" }
    /\ UNCHANGED <<store, now, batch_size, query_timestamp, pending_records,
                   profile_lookup, records_without_profiles, enriched_records,
                   missing_records, clock_reads, miss_streak, store_before>>
    /\ UNCHANGED <<normVars, matchVars, otherVars>>

\* what the fetch collaborator hands back when the provider call failed and
\* the failure is not raised: a list without profiles
FailedFetchResult == << >>

\* Steps 2 to 4 up to the matched records when the provider call fails or
\* times out and the fetch collaborator returns without a usable result:
\* Steps 3 and 4 run on the empty list as on any other
FetchFails ==
    /\ pc = "selected"
    /\ linkedin_urls' = LinkedinUrls(pending_records)
    /\ LET lookup == create_lookup_from_apify_profiles(FailedFetchResult)
           partition == partition_records_by_profile_availability(pending_records, lookup)
       IN  /\ profile_lookup' = lookup
           /\ records_without_profiles' = partition[2]
           /\ enriched_records' = EnrichedRecords(pending_records, lookup)
           /\ pc' = AfterMatching(partition[2])
    /\ calls' = Append(calls, "fetch")
    /\ faults' = { "fetch" }
    /\ UNCHANGED <<store, now, batch_size, query_timestamp, pending_records,
                   missing_records, clock_reads, report, miss_streak,
                   store_before>>
    /\ UNCHANGED <<normVars, matchVars, otherVars>>

\* Step 4, one turn of the comprehension over the missed records:
\* build_missing_profile_record(record) leaves current_retry_count at its
\* default, 0, and reads the clock itself
BuildMissing ==
    /\ pc = "building"
    /\ LET record == records_without_profiles[Len(missing_records) + 1]
       IN  missing_records' = Append(missing_records,
                                     build_missing_profile_record(record, 0, now))
    /\ clock_reads' = Append(clock_reads, now)
    /\ pc' = IF Len(missing_records) + 1 = Len(records_without_profiles)
             THEN "fetched" ELSE "building"
    /\ UNCHANGED <<store, now, batch_size, query_timestamp, pending_records,
                   linkedin_urls, profile_lookup, records_without_profiles,
                   enriched_records, report, miss_streak, calls, faults,
                   store_before>>
    /\ UNCHANGED <<normVars, matchVars, otherVars>>

\* the history of persisted misses after an upsert; misses beyond MaxStreak
\* in a row are not told apart
StreakAfter(streak, enriched, missing) ==
    [ id \in DOMAIN streak |->
        IF \E i \in 1..Len(missing) : missing[i][1] = Some(id)
        THEN Min(streak[id] + 1, MaxStreak)
        ELSE IF \E i \in 1..Len(enriched) : enriched[i][1] = Some(id) THEN 0
        ELSE streak[id] ]

\* an outcome tuple of a missed record
IsMissing(profile_record) == profile_record[6] = Some(FALSE)

\* an outcome tuple of a matched record
IsEnriched(profile_record) == profile_record[6] = Some(TRUE)

\* Step 5, the upsert succeeds
Upsert ==
    /\ pc = "fetched"
    /\ store' = upsert_multiple_records(enriched_records \o missing_records, store)
    /\ miss_streak' = StreakAfter(miss_streak, enriched_records, missing_records)
    /\ pc' = "done"
    /\ report' = "saved"
    /\ calls' = Append(calls, "upsert")
    /\ UNCHANGED <<now, batch_size, query_timestamp, pending_records,
                   linkedin_urls, profile_lookup, records_without_profiles,
                   enriched_records, missing_records, clock_reads, faults,
                   store_before>>
    /\ UNCHANGED <<normVars, matchVars, otherVars>>

\* what a failing upsert call can have written of the batch: any of the
\* rows when the statement raises (the store applies each row on its own
\* and nothing is rolled back), all of them when close_connection() raises
\* after the statement
RECURSIVE PartlyWritten(_)
PartlyWritten(profile_records) ==
    IF profile_records = << >> THEN { << >> }
    ELSE LET rest == PartlyWritten(Tail(profile_records))
         IN  rest \cup { << Head(profile_records) >> \o written : written \in rest }

\* Step 5 when open_connection() is falsy: upsert_multiple_records is not
\* called and upsert_linkedin_profiles returns False
UpsertWithoutConnection ==
    /\ pc = "fetched"
    /\ pc' = "done"
    /\ report' = "failed"
    /\ faults' = faults \cup { "upsert", "connect" }
    /\ UNCHANGED <<store, now, batch_size, query_timestamp, pending_records,
                   linkedin_urls, profile_lookup, records_without_profiles,
                   enriched_records, missing_records, clock_reads, miss_streak,
                   calls, store_before>>
    /\ UNCHANGED <<normVars, matchVars, otherVars>>

\* Step 5 when upsert_multiple_records, or close_connection() after it,
\* raises and the handler closes the connection: upsert_linkedin_profiles
\* returns False
UpsertFails ==
    /\ pc = "fetched"
    /\ \E written \in PartlyWritten(enriched_records \o missing_records) :
         /\ store' = upsert_multiple_records(written, store)
         /\ miss_streak' = StreakAfter(miss_streak, SelectSeq(written, IsEnriched),
                                       SelectSeq(written, IsMissing))
    /\ pc' = "done"
    /\ report' = "failed"
    /\ calls' = Append(calls, "upsert")
    /\ faults' = faults \cup { "upsert" }
    /\ UNCHANGED <<now, batch_size, query_timestamp, pending_records,
                   linkedin_urls, profile_lookup, records_without_profiles,
                   enriched_records, missing_records, clock_reads, store_before>>
    /\ UNCHANGED <<normVars, matchVars, otherVars>>

\* Step 5 when an exception ends the run: open_connection() raises, before
\* the try block and before upsert_multiple_records is called; or
\* upsert_multiple_records, or close_connection() after it, raises and
\* close_connection() raises again in the handler, where nothing catches it
UpsertRaises ==
    /\ pc = "fetched"
    /\ \/ /\ store' = store
          /\ miss_streak' = miss_streak
          /\ calls' = calls
          /\ faults' = faults \cup { "upsert", "connect" }
       \/ /\ \E written \in PartlyWritten(enriched_records \o missing_records) :
                /\ store' = upsert_multiple_records(written, store)
                /\ miss_streak' = StreakAfter(miss_streak, SelectSeq(written, IsEnriched),
                                              SelectSeq(written, IsMissing))
          /\ calls' = Append(calls, "upsert")
          /\ faults' = faults \cup { "upsert" }
    /\ pc' = "done"
    /\ report' = "raised"
    /\ UNCHANGED <<now, batch_size, query_timestamp, pending_records,
                   linkedin_urls, profile_lookup, records_without_profiles,
                   enriched_records, missing_records, clock_reads, store_before>>
    /\ UNCHANGED <<normVars, matchVars, otherVars>>

\* the function returns or is left by the exception; its locals are gone
Return ==
    /\ pc = "done"
    /\ pc' = "idle"
    /\ batch_size' = 0
    /\ query_timestamp' = None
    /\ pending_records' = << >>
    /\ linkedin_urls' = << >>
    /\ profile_lookup' = << >>
    /\ records_without_profiles' = << >>
    /\ enriched_records' = << >>
    /\ missing_records' = << >>
    /\ clock_reads' = << >>
    /\ report' = "none"
    /\ calls' = << >>
    /\ faults' = {}
    /\ store_before' = store
    /\ UNCHANGED <<store, now, miss_streak>>
    /\ UNCHANGED <<normVars, matchVars, otherVars>>

Next ==
    \/ Tick
    \/ Start
    \/ Select
    \/ SelectNothing
    \/ SelectFails
    \/ SelectRaises
    \/ Fetch
    \/ FetchRaises
    \/ FetchFails
    \/ BuildMissing
    \/ Upsert
    \/ UpsertWithoutConnection
    \/ UpsertFails
    \/ UpsertRaises
    \/ Return

Spec == Init /\ [][Next]_vars

-----------------------------------------------------------------------------
(* Runs that go on for ever.  Once the clock stands at MaxFairTicks, time  *)
(* passes by moving the stored times back instead of the clock forward:    *)
(* the query compares next_retry_after with the clock and last_retry_at    *)
(* with last_retry_at only, so it returns the same rows in both pictures.  *)
(* A time that would go below 0 stays at 0; the step is left out where     *)
(* that would make two different last_retry_at equal.                      *)

\* a stored time one tick further in the past
Back(v) == IF v = None THEN None
           ELSE IF v[1] < TickMs THEN Some(0) ELSE Some(v[1] - TickMs)

\* a row one tick later, seen from a clock that stands still
Aged(row) ==
    [ row EXCEPT !["last_retry_at"] = Back(@), !["next_retry_after"] = Back(@) ]

\* time passes, between runs and while a run is under way, up to the
\* bound of the clock
FairTick ==
    /\ now + TickMs <= MaxFairTicks * TickMs
    /\ Tick

\* fifteen minutes pass between two runs
Elapse ==
    /\ pc = "idle"
    /\ now + TickMs > MaxFairTicks * TickMs
    /\ \A a, b \in store :
          (a.last_retry_at # None /\ b.last_retry_at # None
              /\ a.last_retry_at[1] < b.last_retry_at[1])
            => b.last_retry_at[1] > TickMs
    /\ store' = { Aged(row) : row \in store }
    /\ store_before' = store'
    /\ UNCHANGED <<now, pc, batch_size, query_timestamp, pending_records,
                   linkedin_urls, profile_lookup, records_without_profiles,
                   enriched_records, missing_records, clock_reads, report,
                   miss_streak, calls, faults>>
    /\ UNCHANGED <<normVars, matchVars, otherVars>>

NextFair ==
    \/ FairTick
    \/ Elapse
    \/ Start
    \/ Select
    \/ SelectNothing
    \/ SelectFails
    \/ SelectRaises
    \/ Fetch
    \/ FetchRaises
    \/ FetchFails
    \/ BuildMissing
    \/ Upsert
    \/ UpsertWithoutConnection
    \/ UpsertFails
    \/ UpsertRaises
    \/ Return

\* runs keep being started and time keeps passing; a run that is started
\* goes on: its query returns, and the fetch collaborator and the upsert
\* return again and again (if runs keep selecting, building or holding a
\* batch, runs keep saving theirs)
Fairness ==
    /\ WF_vars(Start)
    /\ SF_vars(Select)
    /\ <>[](pc \notin { "selected", "building", "fetched" })
          \/ []<>(pc = "done" /\ report = "saved")
    /\ WF_vars(Return)
    /\ WF_vars(FairTick)
    /\ SF_vars(Elapse)

\* the tables the endless runs start on: every record with a handle was
\* never attempted or has the one miss a run persists, at time 0
FairStores ==
    { table \in InitialStores :
        \A row \in table :
            row.linkedin_handle # None => row.retry_count \in { None, Some(1) } }

InitFair ==
    /\ Init
    /\ store \in FairStores

SpecFair == InitFair /\ [][NextFair]_vars /\ Fairness

-----------------------------------------------------------------------------
(* Two invocations of enrich_linkedin_profiles on the same table at the    *)
(* same time, as two scheduled jobs that overlap.  The second invocation   *)
(* runs the same steps on its own locals; nothing in the code makes one    *)
(* wait for the other, and the clock ticks while they work.                *)

\* the tables two overlapping runs start on: the first record was never
\* attempted, the second was never attempted or has missed once, at time 0
OverlapStores ==
    { table \in InitialStores :
        /\ RowOfUser(table, 1).retry_count = None
        /\ RowOfUser(table, 2).retry_count \in { None, Some(1) } }

InitOverlap ==
    /\ Init
    /\ store \in OverlapStores

\* time passes while the two runs are under way
OverlapTick ==
    /\ now + TickMs <= MaxOverlapTicks * TickMs
    /\ Tick

\* the second run is started and reads the clock for its query
OtherStart ==
    /\ other_pc = "idle"
    /\ other_timestamp' = Some(now)
    /\ other_pc' = "started"
    /\ UNCHANGED <<other_pending, other_without_profiles, other_records>>
    /\ UNCHANGED <<runVars, normVars, matchVars>>

\* Step 1 of the second run, the query returns a non-empty selection
OtherSelect ==
    /\ other_pc = "started"
    /\ \E limit \in 1..MaxLimit :
         \E results \in QueryResults(store, other_timestamp[1], limit) :
            /\ Len(results) > 0
            /\ other_pending' = results
    /\ other_pc' = "selected"
    /\ UNCHANGED <<other_timestamp, other_without_profiles, other_records>>
    /\ UNCHANGED <<runVars, normVars, matchVars>>

\* Step 1 of the second run, with an empty selection or, in any state of
\* the table, a read that fails or raises: the run ends
OtherSelectNothing ==
    /\ other_pc = "started"
    /\ other_pc' = "ended"
    /\ UNCHANGED <<other_timestamp, other_pending, other_without_profiles,
                   other_records>>
    /\ UNCHANGED <<runVars, normVars, matchVars>>

\* Steps 2 to 4 of the second run, up to the matched records
OtherFetch ==
    /\ other_pc = "selected"
    /\ \E lookup \in FetchedLookups :
         LET partition == partition_records_by_profile_availability(other_pending, lookup)
         IN  /\ other_without_profiles' = partition[2]
             /\ other_records' = EnrichedRecords(other_pending, lookup)
             /\ other_pc' = AfterMatching(partition[2])
    /\ UNCHANGED <<other_timestamp, other_pending>>
    /\ UNCHANGED <<runVars, normVars, matchVars>>

\* Step 2 of the second run when the fetch collaborator raises
OtherFetchRaises ==
    /\ other_pc = "selected"
    /\ other_pc' = "ended"
    /\ UNCHANGED <<other_timestamp, other_pending, other_without_profiles,
                   other_records>>
    /\ UNCHANGED <<runVars, normVars, matchVars>>

\* Step 4 of the second run, one turn of the comprehension over the missed
\* records
OtherBuildMissing ==
    /\ other_pc = "building"
    /\ LET built == Len(SelectSeq(other_records, IsMissing))
           record == other_without_profiles[built + 1]
       IN  /\ other_records' = Append(other_records,
                                      build_missing_profile_record(record, 0, now))
           /\ other_pc' = IF built + 1 = Len(other_without_profiles)
                          THEN "fetched" ELSE "building"
    /\ UNCHANGED <<other_timestamp, other_pending, other_without_profiles>>
    /\ UNCHANGED <<runVars, normVars, matchVars>>

\* variant: the second run writes only the rows that nobody has written
\* since the first run started
OtherUpsertKeepingEarlier ==
    /\ other_pc = "fetched"
    /\ LET unwritten(t) == \E row \in store \cap store_before : SameKey(row, RowOf(t))
       IN  /\ store' = upsert_multiple_records(SelectSeq(other_records, unwritten), store)
           /\ miss_streak' = StreakAfter(miss_streak,
                                 SelectSeq(SelectSeq(other_records, unwritten), IsEnriched),
                                 SelectSeq(SelectSeq(other_records, unwritten), IsMissing))
    /\ other_pc' = "saved"
    /\ UNCHANGED <<other_timestamp, other_pending, other_without_profiles,
                   other_records>>
    /\ UNCHANGED <<now, pc, batch_size, query_timestamp, pending_records,
                   linkedin_urls, profile_lookup, records_without_profiles,
                   enriched_records, missing_records, clock_reads, report,
                   calls, faults, store_before>>
    /\ UNCHANGED <<normVars, matchVars>>

\* Step 5 of the second run, the upsert succeeds
OtherUpsert ==
    /\ other_pc = "fetched"
    /\ store' = upsert_multiple_records(other_records, store)
    /\ miss_streak' = StreakAfter(miss_streak, SelectSeq(other_records, IsEnriched),
                                  SelectSeq(other_records, IsMissing))
    /\ other_pc' = "saved"
    /\ UNCHANGED <<other_timestamp, other_pending, other_without_profiles,
                   other_records>>
    /\ UNCHANGED <<now, pc, batch_size, query_timestamp, pending_records,
                   linkedin_urls, profile_lookup, records_without_profiles,
                   enriched_records, missing_records, clock_reads, report,
                   calls, faults, store_before>>
    /\ UNCHANGED <<normVars, matchVars>>

\* Step 5 of the second run, the upsert fails, without a connection or
\* after any part of the batch is written, or raises: the run ends
OtherUpsertFails ==
    /\ other_pc = "fetched"
    /\ \E written \in PartlyWritten(other_records) :
         /\ store' = upsert_multiple_records(written, store)
         /\ miss_streak' = StreakAfter(miss_streak, SelectSeq(written, IsEnriched),
                                       SelectSeq(written, IsMissing))
    /\ other_pc' = "ended"
    /\ UNCHANGED <<other_timestamp, other_pending, other_without_profiles,
                   other_records>>
    /\ UNCHANGED <<now, pc, batch_size, query_timestamp, pending_records,
                   linkedin_urls, profile_lookup, records_without_profiles,
                   enriched_records, missing_records, clock_reads, report,
                   calls, faults, store_before>>
    /\ UNCHANGED <<normVars, matchVars>>

\* one invocation each, in any interleaving of their steps and of the
\* ticks of the clock
NextOverlap ==
    \/ OverlapTick
    \/ Start
    \/ Select
    \/ SelectNothing
    \/ SelectFails
    \/ SelectRaises
    \/ Fetch
    \/ FetchRaises
    \/ FetchFails
    \/ BuildMissing
    \/ Upsert
    \/ UpsertWithoutConnection
    \/ UpsertFails
    \/ UpsertRaises
    \/ OtherStart
    \/ OtherSelect
    \/ OtherSelectNothing
    \/ OtherFetch
    \/ OtherFetchRaises
    \/ OtherBuildMissing
    \/ OtherUpsert
    \/ OtherUpsertFails

SpecOverlap == InitOverlap /\ [][NextOverlap]_vars

-----------------------------------------------------------------------------
(* Normaliser harness.                                                     *)

RunQuiescent ==
    /\ store = {}
    /\ now = 0
    /\ pc = "idle"
    /\ batch_size = 0
    /\ query_timestamp = None
    /\ pending_records = << >>
    /\ linkedin_urls = << >>
    /\ profile_lookup = << >>
    /\ records_without_profiles = << >>
    /\ enriched_records = << >>
    /\ missing_records = << >>
    /\ clock_reads = << >>
    /\ report = "none"
    /\ miss_streak = << >>
    /\ calls = << >>
    /\ faults = {}
    /\ store_before = {}
    /\ OtherQuiescent

(* The references the normaliser is applied to.  A                         *)
(* reference is an optional host prefix, an optional separator, an         *)
(* optional "in/" path segment, a handle and an optional trailing          *)
(* separator.                                                              *)

HostPrefixes ==
    { "", "https://www.linkedin.com", "https://linkedin.com",
      "http://www.linkedin.com", "HTTPS://www.linkedin.com",
      "http://linkedin.com" }
Separators == { "", "/" }
PathSegments == { "", "in/", "IN/" }
HandleNames == { "jdoe", "JDoe" }

References ==
    { p \o s \o g \o h \o t :
        p \in HostPrefixes, s \in Separators, g \in PathSegments,
        h \in HandleNames, t \in Separators }

\* x and y differ in letter case only
SameUpToCase(x, y) == lower(x) = lower(y)

InitNormalize ==
    /\ RunQuiescent
    /\ MatchQuiescent
    /\ reference \in References
    /\ variant = None
    /\ norm_once = None
    /\ norm_twice = None
    /\ norm_variant = None

\* normalize(x) and normalize(normalize(x))
NormalizeReference ==
    /\ norm_once = None
    /\ norm_once' = Some(normalize_linkedin_handle(reference))
    /\ norm_twice' = Some(normalize_linkedin_handle(normalize_linkedin_handle(reference)))
    /\ UNCHANGED <<reference, variant, norm_variant>>
    /\ UNCHANGED <<runVars, matchVars, otherVars>>

\* normalize(y) for some y that differs from x in case only
NormalizeVariant ==
    /\ variant = None
    /\ \E y \in References :
        /\ SameUpToCase(reference, y)
        /\ variant' = Some(y)
        /\ norm_variant' = Some(normalize_linkedin_handle(y))
    /\ UNCHANGED <<reference, norm_once, norm_twice>>
    /\ UNCHANGED <<runVars, matchVars, otherVars>>

NextNormalize == NormalizeReference \/ NormalizeVariant

SpecNormalize == InitNormalize /\ [][NextNormalize]_vars

-----------------------------------------------------------------------------
(* Matcher harness: the lookup and the partition applied to a selection    *)
(* and a fetched list, and to the same list in another order.              *)

\* every reordering of a list
Reorderings(seq) ==
    { [ i \in 1..Len(seq) |-> seq[f[i]] ] :
        f \in { g \in [1..Len(seq) -> 1..Len(seq)] :
                  \A i, j \in 1..Len(seq) : i # j => g[i] # g[j] } }

\* the selections: the records with a handle, any of them in any order
Selections ==
    LET records == { PendingOf(NeverAttemptedRow(identity)) :
                       identity \in { id \in Identities : id[4] # None } }
    IN  UNION { { q \in [1..n -> records] : \A i, j \in 1..n : i # j => q[i] # q[j] } :
                  n \in 0..Cardinality(records) }

InitMatch ==
    /\ RunQuiescent
    /\ NormalizeQuiescent
    /\ match_input \in Selections \X FetchResults
    /\ match_output = None
    /\ reorder_input = None
    /\ reorder_output = None

\* Step 3 on the selection and the fetched list
Match ==
    /\ match_output = None
    /\ match_output' = Some(partition_records_by_profile_availability(
                               match_input[1],
                               create_lookup_from_apify_profiles(match_input[2])))
    /\ UNCHANGED <<match_input, reorder_input, reorder_output>>
    /\ UNCHANGED <<runVars, normVars, otherVars>>

\* Step 3 on the selection and a reordering of the fetched list
MatchReordered ==
    /\ reorder_input = None
    /\ \E reordered \in Reorderings(match_input[2]) :
        /\ reorder_input' = Some(reordered)
        /\ reorder_output' = Some(partition_records_by_profile_availability(
                                     match_input[1],
                                     create_lookup_from_apify_profiles(reordered)))
    /\ UNCHANGED <<match_input, match_output>>
    /\ UNCHANGED <<runVars, normVars, otherVars>>

NextMatch == Match \/ MatchReordered

SpecMatch == InitMatch /\ [][NextMatch]_vars

-----------------------------------------------------------------------------
(* Properties.                                                             *)

\* the value an outcome tuple or a pending record holds for a column
Col(tuple, c) == tuple[ColumnIndex(c)]

\* the row of the table a pending record was read from
StoredRow(record) ==
    CHOOSE row \in store :
        /\ row.github_user_id = record[1]
        /\ row.linkedin_handle = record[4]

Minutes(n) == n * 60 * 1000

\* the run has built its outcome tuples
Built ==
    \/ pc = "fetched"
    \/ pc = "done" /\ (report \in { "saved", "failed" } \/ "upsert" \in faults)

\* the index set of a sequence
Idx(seq) == 1..Len(seq)

\* the github_user_ids of a sequence of pending records or outcome tuples
IdsOf(seq) == { seq[i][1] : i \in Idx(seq) }

\* C1: a record that keeps missing is fetched in at most 3 runs: it never
\* has more than 3 persisted misses in a row, after the third its stored
\* retry_count is 3, and no later run selects it.
C1_AtMostThreeFetches ==
    \A id \in UserIds :
        /\ miss_streak[id] <= 3
        /\ miss_streak[id] = 3 => RowOfUser(store, id).retry_count = Some(3)
        /\ (pc = "selected" /\ miss_streak[id] >= 3) => Some(id) \notin IdsOf(pending_records)

\* C2: a persisted miss stores the record's previous retry_count (0 if
\* unset) plus 1.
C2_MissIncrementsRetryCount ==
    (pc = "done" /\ report = "saved") =>
        \A i \in Idx(pending_records) :
            pending_records[i][1] \in IdsOf(missing_records) =>
                StoredRow(pending_records[i]).retry_count
                    = Some(pending_records[i][5][1] + 1)

\* C3: after the first, second and third miss in a row the stored cooldown
\* (next_retry_after - last_retry_at) is 5, 20 and 45 minutes.
C3_BackoffDeltas ==
    \A row \in store :
        LET n == miss_streak[row.github_user_id[1]]
        IN  (row.profile_found = Some(FALSE) /\ n \in 1..3) =>
                row.next_retry_after[1] - row.last_retry_at[1]
                    = CASE n = 1 -> Minutes(5)
                        [] n = 2 -> Minutes(20)
                        [] n = 3 -> Minutes(45)

\* C4: the selection has at most batch_size members, all distinct, and the
\* URL list sent to the fetch collaborator has one URL per member; no
\* member has a null handle, is a found=false row with retry_count >= 3,
\* or is a found=false row whose next_retry_after has not passed at the
\* time the run read for its query.
C4_SelectionIsEligible ==
    /\ pc \in { "selected", "building", "fetched" } =>
        /\ Len(pending_records) <= batch_size
        /\ \A i, j \in Idx(pending_records) :
              i # j => << pending_records[i][1], pending_records[i][4] >>
                        # << pending_records[j][1], pending_records[j][4] >>
        /\ \A i \in Idx(pending_records) :
              LET row == StoredRow(pending_records[i])
              IN  /\ pending_records[i][4] # None
                  /\ row.linkedin_handle # None
                  /\ ~(row.profile_found = Some(FALSE) /\ row.retry_count # None
                        /\ row.retry_count[1] >= 3)
                  /\ ~(row.profile_found = Some(FALSE) /\ row.next_retry_after # None
                        /\ ~(row.next_retry_after[1] < query_timestamp[1]))
    /\ pc \in { "building", "fetched" } => Len(linkedin_urls) = Len(pending_records)

\* a run has selected a record while another record is a terminal failure
\* whose cooldown has passed
C4_Witness ==
    /\ pc = "selected"
    /\ \E row \in store :
          /\ row.profile_found = Some(FALSE)
          /\ row.retry_count = Some(3)
          /\ row.next_retry_after[1] < query_timestamp[1]

\* C5: every selected record has exactly one outcome tuple: the selection
\* is as long as the enriched and the missing tuples together, and no
\* record is in both.
C5_OneOutcomePerRecord ==
    Built =>
        /\ Len(pending_records) = Len(enriched_records) + Len(missing_records)
        /\ IdsOf(enriched_records) \cap IdsOf(missing_records) = {}
        /\ \A i \in Idx(pending_records) :
              Cardinality({ j \in Idx(enriched_records \o missing_records) :
                    /\ (enriched_records \o missing_records)[j][1] = pending_records[i][1]
                    /\ (enriched_records \o missing_records)[j][4] = pending_records[i][4] }) = 1
        /\ report = "saved" =>
              \A i \in Idx(pending_records) :
                  \E j \in Idx(enriched_records \o missing_records) :
                      StoredRow(pending_records[i]) = RowOf((enriched_records \o missing_records)[j])

\* a run wrote a batch with a matched and a missed record
C5_Witness ==
    /\ pc = "done"
    /\ report = "saved"
    /\ Len(enriched_records) = 1
    /\ Len(missing_records) = 1

\* the Apify key each profile column is read from
FieldOfColumn ==
    [ full_name |-> "fullName", first_name |-> "firstName",
      last_name |-> "lastName", headline |-> "headline", about |-> "about",
      public_identifier |-> "publicIdentifier", linkedin_url |-> "linkedinUrl",
      connections |-> "connections", followers |-> "followers",
      job_title |-> "jobTitle", company_name |-> "companyName",
      company_industry |-> "companyIndustry", company_website |-> "companyWebsite",
      company_linkedin |-> "companyLinkedin", company_founded_in |-> "companyFoundedIn",
      company_size |-> "companySize",
      current_job_duration_yrs |-> "currentJobDurationInYrs",
      address_with_country |-> "addressWithCountry",
      address_country_only |-> "addressCountryOnly",
      address_without_country |-> "addressWithoutCountry",
      profile_pic_url |-> "profilePic",
      profile_pic_high_quality_url |-> "profilePicHighQuality",
      top_skills_by_endorsements |-> "topSkillsByEndorsements" ]

\* C6: an outcome tuple of a matched record has found=true, no message,
\* retry_count 0, no last_retry_at and no next_retry_after, and each profile
\* column holds the value of one fetched profile, null where the profile
\* lacks the field.
C6_EnrichedRecordFields ==
    Built =>
        \A i \in Idx(enriched_records) :
            LET t == enriched_records[i]
            IN  /\ Len(t) = Len(columns)
                /\ Col(t, "profile_found") = Some(TRUE)
                /\ Col(t, "profile_fetch_message") = None
                /\ Col(t, "retry_count") = Some(0)
                /\ Col(t, "last_retry_at") = None
                /\ Col(t, "next_retry_after") = None
                /\ \E h \in DOMAIN profile_lookup :
                      \A c \in DOMAIN FieldOfColumn :
                          Col(t, c) = IF FieldOfColumn[c] \in DOMAIN profile_lookup[h]
                                      THEN profile_lookup[h][FieldOfColumn[c]]
                                      ELSE None

\* a record that had missed before is matched by a profile that has a name
\* but lacks the headline
C6_Witness ==
    /\ pc = "done"
    /\ \E i \in Idx(enriched_records) :
          /\ Col(enriched_records[i], "full_name") # None
          /\ Col(enriched_records[i], "headline") = None
          /\ \E j \in Idx(pending_records) :
                /\ pending_records[j][1] = enriched_records[i][1]
                /\ pending_records[j][5][1] >= 1

\* the outcome tuples of the missed records, for a given fixed message;
\* last_retry_at is what the clock said to the call that built the tuple
MissingRecordsCarry(message) ==
    Built =>
        \A j \in Idx(missing_records) :
            LET t == missing_records[j]
            IN  /\ Len(t) = Len(columns)
                /\ \E i \in Idx(pending_records) :
                      \A k \in 1..4 : t[k] = pending_records[i][k]
                /\ Col(t, "profile_found") = Some(FALSE)
                /\ Col(t, "profile_fetch_message") = Some(message)
                /\ \A c \in DOMAIN FieldOfColumn : Col(t, c) = None
                /\ Col(t, "profile_data") = None
                /\ Col(t, "last_retry_at") = Some(clock_reads[j])
                /\ clock_reads[j] <= now

\* C7 as claimed: an outcome tuple of a missed record keeps identifier,
\* social link, provider tag and handle, has found=false, the message
\* "Profile not returned by provider", null profile columns and blob, and
\* last_retry_at equal to the time of the attempt.
C7_MissingRecordFields_Claimed == MissingRecordsCarry("Profile not returned by provider")

\* C7 as amended: the same, the message being "Profile not returned by
\* Apify API".
C7_MissingRecordFields == MissingRecordsCarry("Profile not returned by Apify API")

\* a run built the outcome tuple of a record that had missed before and
\* misses again, some time after the start
C7_Witness ==
    /\ Built
    /\ now > 0
    /\ \E j \in Idx(missing_records) :
          \E i \in Idx(pending_records) :
              /\ pending_records[i][1] = missing_records[j][1]
              /\ pending_records[i][5][1] >= 1

\* C8: normalize(normalize(x)) = normalize(x) for every reference x.
C8_NormalizeIdempotent ==
    norm_once # None => norm_twice = norm_once

\* C9: normalize(x) = normalize(y) for references x and y that differ in
\* letter case only.
C9_NormalizeCaseInsensitive ==
    (norm_once # None /\ norm_variant # None) => norm_once = norm_variant

\* the selected records for which the list holds a profile with a non-empty
\* public identifier that normalises to the record's normalised handle
RecordsWithProfile(records, profiles) ==
    { records[i][1] : i \in { k \in Idx(records) :
        \E j \in Idx(profiles) :
            /\ "publicIdentifier" \in DOMAIN profiles[j]
            /\ profiles[j]["publicIdentifier"] # None
            /\ profiles[j]["publicIdentifier"][1] # ""
            /\ normalize_linkedin_handle(profiles[j]["publicIdentifier"][1])
                 = normalize_linkedin_handle(records[k][4][1]) } }

\* C10: the matched records are exactly those for which the fetched list
\* holds a profile with a non-empty public identifier whose normal form is
\* the normal form of the stored handle, the others are missed, and a
\* reordering of the fetched list gives the same matched and missed records.
C10_MatchByNormalizedHandle ==
    /\ match_output # None =>
          /\ { pair[2][1] : pair \in Range(match_output[1][1]) }
               = RecordsWithProfile(match_input[1], match_input[2])
          /\ IdsOf(match_output[1][2])
               = IdsOf(match_input[1]) \ RecordsWithProfile(match_input[1], match_input[2])
    /\ (match_output # None /\ reorder_output # None) =>
          /\ { pair[2][1] : pair \in Range(reorder_output[1][1]) }
               = { pair[2][1] : pair \in Range(match_output[1][1]) }
          /\ IdsOf(reorder_output[1][2]) = IdsOf(match_output[1][2])

\* the record with stored handle "in/jdoe" is matched by the profile with
\* publicIdentifier "jdoe", the other record is missed, and the same holds
\* for the list in the opposite order
C10_Witness ==
    /\ match_output # None
    /\ reorder_output # None
    /\ reorder_input[1] # match_input[2]
    /\ Len(match_output[1][2]) = 1
    /\ \E pair \in Range(match_output[1][1]) :
          /\ pair[2][4] = Some("in/jdoe")
          /\ pair[1]["publicIdentifier"] = Some("jdoe")

-----------------------------------------------------------------------------
(* Failures of the collaborators and the order of the external calls.      *)

\* C11: a run whose fetch collaborator failed (it raised, or it returned
\* without a usable result) performs no upsert: the table is as it was when
\* the run started, so no retry_count, last_retry_at, next_retry_after or
\* found flag of a selected record has changed and no miss is persisted.
C11_FetchFailureWritesNothing ==
    "fetch" \in faults =>
        /\ "upsert" \notin Range(calls)
        /\ store = store_before

\* C12: a run whose selection read found the store unreachable ends with a
\* report other than that of an empty selection, without a call of the
\* fetch collaborator or of the upsert and with the table unchanged.
C12_ReadFailureIsSignalled ==
    (pc = "done" /\ "read" \in faults) =>
        /\ report # "nothing"
        /\ "fetch" \notin Range(calls)
        /\ "upsert" \notin Range(calls)
        /\ store = store_before

\* the number of times a call occurs in the run's call history
Times(call) == Cardinality({ i \in Idx(calls) : calls[i] = call })

\* the clock now and at the next ticks, when a next run may start
LaterTimes == { now + k * TickMs : k \in 0..2 }

\* a run whose upsert failed has reported failure, has not called the
\* upsert a second time and has left the table as it was when the run
\* started
FailedUpsertLeavesStore ==
    /\ report = "failed"
    /\ Times("upsert") <= 1
    /\ store = store_before

\* C13: after a failed upsert the run has reported failure, has not
\* repeated the upsert and has left the table as before the run, and a next
\* run with the same batch size selects every record of the failed run.
C13_FailedUpsertReselects ==
    (pc = "done" /\ "upsert" \in faults) =>
        /\ FailedUpsertLeavesStore
        /\ \A t \in LaterTimes :
              \A results \in QueryResults(store, t, batch_size) :
                  IdsOf(pending_records) \subseteq IdsOf(results)

\* the external calls of a run are the store read, then the provider
\* fetch, then the store upsert: each at most once, none out of order
CallsInOrder ==
    \E n \in 0..3 : calls = SubSeq(<< "read", "fetch", "upsert" >>, 1, n)

\* C14 as claimed: the external calls of a run are read, fetch, upsert in
\* this order, each at most once; a run that has ended made all three if
\* its selection had a record, and neither the fetch nor the upsert if it
\* had none.
C14_ThreeCallsInOrder ==
    /\ CallsInOrder
    /\ pc = "done" =>
          IF Len(pending_records) > 0
          THEN calls = << "read", "fetch", "upsert" >>
          ELSE "fetch" \notin Range(calls) /\ "upsert" \notin Range(calls)

\* the run ended by an exception of the read or of the fetch (or of the
\* loop over a fetch result that is no list), before any upsert
RaisedBeforeUpsert == report = "raised" /\ "upsert" \notin faults

\* C14 as amended: the external calls of a run are read, fetch, upsert in
\* this order, each at most once.  A run that has ended made all three if
\* its selection had a record, the fetch call returned a list and the
\* connection for the upsert opened; it made no further call after a call
\* that raised; it made no read if the connection for the read did not
\* open, and no upsert if the connection for the upsert did not open
\* (open_connection() falsy or raising); it made the read only if the
\* selection had no record.
C14_CallsInOrder ==
    /\ CallsInOrder
    /\ pc = "done" =>
          calls = IF "read" \in faults
                  THEN (IF "connect" \in faults THEN << >> ELSE << "read" >>)
                  ELSE IF Len(pending_records) = 0 THEN << "read" >>
                  ELSE IF RaisedBeforeUpsert \/ "connect" \in faults
                       THEN << "read", "fetch" >>
                  ELSE << "read", "fetch", "upsert" >>

\* a run with two selected records has ended after its three calls and
\* has changed the table
C14_Witness ==
    /\ pc = "done"
    /\ Len(pending_records) = 2
    /\ calls = << "read", "fetch", "upsert" >>
    /\ report = "saved"
    /\ store # store_before

-----------------------------------------------------------------------------
(* Frame of the upsert, the lookup, the order of the selection.            *)

\* the (github_user_id, linkedin_handle) pair of a row
KeyOf(row) == << row.github_user_id, row.linkedin_handle >>

\* the (github_user_id, linkedin_handle) pairs of the selected records
SelectedKeys == { << pending_records[i][1], pending_records[i][4] >> : i \in Idx(pending_records) }

\* the run has ended after a call of the upsert
UpsertCalled == pc = "done" /\ "upsert" \in Range(calls)

\* C16: the table always has one row per (github_user_id, linkedin_handle)
\* pair and the pairs it started with; it changes in the call of the upsert
\* only, which leaves every row of a record the run did not select as it
\* was; a successful upsert replaces the row of every selected record by
\* the run's outcome for that record (one that fails or raises may have
\* replaced some of them).
C16_UpsertOverwritesInPlace ==
    /\ { KeyOf(row) : row \in store } = { << identity[1], identity[4] >> : identity \in Identities }
    /\ Cardinality(store) = Cardinality(Identities)
    /\ ~UpsertCalled => store = store_before
    /\ UpsertCalled =>
          /\ \A row \in store_before : KeyOf(row) \notin SelectedKeys => row \in store
          /\ \A row \in store : KeyOf(row) \in SelectedKeys =>
                \/ row \in { RowOf(t) : t \in Range(enriched_records \o missing_records) }
                \/ report # "saved" /\ row \in store_before

\* a successful run has replaced the row of an earlier miss by a success
\* and left the row of another record with a handle untouched
C16_Witness ==
    /\ pc = "done"
    /\ report = "saved"
    /\ Len(pending_records) = 1
    /\ \E old \in store_before, new \in store :
          /\ KeyOf(old) = KeyOf(new)
          /\ KeyOf(old) \in SelectedKeys
          /\ old.profile_found = Some(FALSE)
          /\ new.profile_found = Some(TRUE)
    /\ \E row \in store :
          /\ row.linkedin_handle # None
          /\ KeyOf(row) \notin SelectedKeys
          /\ row \in store_before

\* the profile has a public identifier that is not empty
HasIdentifier(profile) ==
    /\ "publicIdentifier" \in DOMAIN profile
    /\ profile["publicIdentifier"] # None
    /\ profile["publicIdentifier"][1] # ""

\* the positions of the fetched list whose profile has an identifier that
\* normalises to the handle
PositionsOf(profiles, handle) ==
    { j \in Idx(profiles) :
        /\ HasIdentifier(profiles[j])
        /\ normalize_linkedin_handle(profiles[j]["publicIdentifier"][1]) = handle }

\* the last profile of the fetched list under the handle
LastProfileOf(profiles, handle) ==
    profiles[CHOOSE j \in PositionsOf(profiles, handle) :
                \A k \in PositionsOf(profiles, handle) : k <= j]

\* C17: the lookup has one entry per normalised identifier of the fetched
\* profiles that have a non-empty identifier, the entry being the last such
\* profile of the fetched list; a matched record is paired with the last
\* profile under its normalised handle, never with a profile without
\* identifier.
C17_LastProfileWins ==
    match_output # None =>
        LET records == match_input[1]
            profiles == match_input[2]
            lookup == create_lookup_from_apify_profiles(profiles)
        IN  /\ DOMAIN lookup = { normalize_linkedin_handle(profiles[j]["publicIdentifier"][1]) :
                                    j \in { k \in Idx(profiles) : HasIdentifier(profiles[k]) } }
            /\ \A h \in DOMAIN lookup : lookup[h] = LastProfileOf(profiles, h)
            /\ \A pair \in Range(match_output[1][1]) :
                  /\ HasIdentifier(pair[1])
                  /\ pair[1] = LastProfileOf(profiles,
                                   normalize_linkedin_handle(pair[2][4][1]))

\* the fetched list holds two different profiles whose identifiers
\* normalise to the same handle, and the record with that handle is paired
\* with the second
C17_Witness ==
    /\ match_output # None
    /\ Len(match_input[2]) = 2
    /\ match_input[2][1] # match_input[2][2]
    /\ HasIdentifier(match_input[2][1])
    /\ HasIdentifier(match_input[2][2])
    /\ normalize_linkedin_handle(match_input[2][1]["publicIdentifier"][1])
         = normalize_linkedin_handle(match_input[2][2]["publicIdentifier"][1])
    /\ \E pair \in Range(match_output[1][1]) : pair[1] = match_input[2][2]

\* row a has a smaller retry_count (unset counted as 0) than row b, or the
\* same retry_count and an unset last_retry_at where b has one, or the same
\* retry_count and an earlier last_retry_at
StrictlyBefore(a, b) ==
    LET ca == IF a.retry_count = None THEN 0 ELSE a.retry_count[1]
        cb == IF b.retry_count = None THEN 0 ELSE b.retry_count[1]
    IN  \/ ca < cb
        \/ /\ ca = cb
           /\ \/ a.last_retry_at = None /\ b.last_retry_at # None
              \/ /\ a.last_retry_at # None
                 /\ b.last_retry_at # None
                 /\ a.last_retry_at[1] < b.last_retry_at[1]

\* the rows of the selected records
SelectedRows == { row \in store : KeyOf(row) \in SelectedKeys }

\* C18: a selection holds batch_size records, or every eligible record when
\* there are fewer; no eligible record left out has a smaller retry_count
\* than a selected one, or the same retry_count and an earlier last_retry_at
\* (an unset one being earlier than any set one); the selection is returned
\* in that order.
C18_SelectionFollowsOrder ==
    pc = "selected" =>
        LET eligible == { row \in store : Eligible(row, query_timestamp[1]) }
        IN  /\ Len(pending_records)
                 = IF Cardinality(eligible) < batch_size
                   THEN Cardinality(eligible) ELSE batch_size
            /\ \A r \in SelectedRows :
                  \A u \in eligible \ SelectedRows : ~StrictlyBefore(u, r)
            /\ \A i, j \in Idx(pending_records) :
                  i < j => ~StrictlyBefore(StoredRow(pending_records[j]),
                                           StoredRow(pending_records[i]))

\* a run with batch size 1 has selected a record and left out an eligible
\* record that has the same retry_count and a later last_retry_at
C18_Witness ==
    /\ pc = "selected"
    /\ batch_size = 1
    /\ \E r \in SelectedRows :
          \E u \in { row \in store : Eligible(row, query_timestamp[1]) } \ SelectedRows :
              /\ r.retry_count # None
              /\ u.retry_count = r.retry_count
              /\ r.last_retry_at # None
              /\ u.last_retry_at # None
              /\ r.last_retry_at[1] < u.last_retry_at[1]

\* C20: a row that holds a success outcome (found = true) is in no
\* selection, and every step leaves it in the table as it is.
C20_SuccessIsFinal ==
    [][ \A row \in store :
            row.profile_found = Some(TRUE) =>
                /\ pc \in { "selected", "building", "fetched" } => row \notin SelectedRows
                /\ row \in store' ]_vars

\* a later run has selected a record while the table holds a success that
\* an earlier run persisted
C20_Witness ==
    /\ pc = "selected"
    /\ now > 0
    /\ \E row \in store :
          /\ row.profile_found = Some(TRUE)
          /\ row.retry_count = Some(0)
          /\ row.public_identifier # None
          /\ row.next_retry_after = None

-----------------------------------------------------------------------------
(* Overlapping runs.                                                       *)

\* the (github_user_id, linkedin_handle) pairs the second run selected
OtherSelectedKeys == { << other_pending[i][1], other_pending[i][4] >> : i \in Idx(other_pending) }

\* C19: nothing keeps two overlapping runs apart: a successful upsert of
\* either run leaves in the table, for every record the run selected, the
\* outcome that run built, whatever the other run has written for the
\* record since the selection; so the later upsert of two runs that
\* selected the same record replaces the outcome of the earlier.
C19_LaterUpsertOverwrites ==
    [][ /\ (pc = "fetched" /\ pc' = "done" /\ report' = "saved") =>
              \A t \in Range(enriched_records \o missing_records) :
                  RowOf(t) \in store'
        /\ (other_pc = "fetched" /\ other_pc' = "saved") =>
              \A t \in Range(other_records) : RowOf(t) \in store' ]_vars

\* both runs selected the same record before either wrote, both fetched it
\* within five minutes, the first run persisted a success for it and the
\* second run has replaced the success by a miss
C19_Witness ==
    /\ pc = "done"
    /\ report = "saved"
    /\ other_pc = "saved"
    /\ now < Minutes(5)
    /\ \E key \in SelectedKeys \cap OtherSelectedKeys :
          /\ \E row \in store_before : KeyOf(row) = key /\ Eligible(row, now)
          /\ \E t \in Range(enriched_records) : << t[1], t[4] >> = key
          /\ \E t \in Range(other_records) :
                /\ << t[1], t[4] >> = key
                /\ IsMissing(t)
                /\ RowOf(t) \in store

-----------------------------------------------------------------------------
(* Starvation.                                                             *)

\* the users whose record has a handle; the other records are never
\* eligible
HandleIds == { identity[1][1] : identity \in { i \in Identities : i[4] # None } }

\* no run is under way and the record of the user is eligible: a run that
\* starts now may select it
Waiting(id) == pc = "idle" /\ Eligible(RowOfUser(store, id), now)

\* a run has selected the record of the user
Selected(id) == pc = "selected" /\ Some(id) \in IdsOf(pending_records)

\* C15: no eligible record is starved.  With runs that keep being executed
\* one after another and time that keeps passing, every record that is
\* eligible when no run is under way is selected by some later run, even
\* while other records keep missing and keep being retried.
C15_NoStarvation ==
    \A id \in HandleIds : Waiting(id) ~> Selected(id)

\* a run with batch size 1 has selected a record for a retry while another
\* record, which has missed in two runs in a row, is eligible again
C15_Witness ==
    /\ pc = "selected"
    /\ batch_size = 1
    /\ \E id, other \in UserIds :
          /\ id # other
          /\ Some(id) \in IdsOf(pending_records)
          /\ miss_streak[id] >= 1
          /\ miss_streak[other] >= 2
          /\ Eligible(RowOfUser(store, other), query_timestamp[1])

=============================================================================
